---- MODULE Spec2Model ----
(***************************************************************************)
(* A model of set_up_wind_hireachy.py: the SpeedTree extractor             *)
(* (read_speedtree_file, parse_speedtree_xml, extract_level_from_name),    *)
(* the level classifier (assign_bone_ids_to_levels) and the hierarchy      *)
(* emitter (generate_wind_hierarchy_json).                                 *)
(*                                                                         *)
(* Strings are sequences of one-character strings, Python's None is the    *)
(* empty tuple and a present value v is <<v>>.  A dict whose insertion     *)
(* order is read later (bone_assignments) is a sequence of <<key, value>>  *)
(* pairs with distinct keys; the other dicts are functions.  Floats are    *)
(* thousandths before round(x, 2) and hundredths after it.                 *)
(***************************************************************************)
EXTENDS Integers, Sequences, FiniteSets, TLC

(***************************************************************************)
(* Bounds of the model.                                                    *)
(***************************************************************************)
\* objects of one document that the extractor's loop reads
MaxObjects == 2
\* objects of a LevelIndex handed directly to the classifier
MaxIndexObjects == 2
\* entries of a BoneLevelAssignment handed directly to the emitter
MaxBones == 2
\* largest level of a BoneLevelAssignment handed directly to the emitter
MaxLevel == 8

None == <<>>
Some(v) == <<v>>

Digits == {"0", "1", "2", "3", "4", "5", "6", "7", "8", "9"}

DigitVal(c) ==
    CASE c = "0" -> 0 [] c = "1" -> 1 [] c = "2" -> 2 [] c = "3" -> 3
      [] c = "4" -> 4 [] c = "5" -> 5 [] c = "6" -> 6 [] c = "7" -> 7
      [] c = "8" -> 8 [] c = "9" -> 9

DigitChar(d) ==
    CASE d = 0 -> "0" [] d = 1 -> "1" [] d = 2 -> "2" [] d = 3 -> "3"
      [] d = 4 -> "4" [] d = 5 -> "5" [] d = 6 -> "6" [] d = 7 -> "7"
      [] d = 8 -> "8" [] d = 9 -> "9"

Min(a, b) == IF a <= b THEN a ELSE b
Max(a, b) == IF a >= b THEN a ELSE b

\* int() of a non-empty run of decimal digits
RECURSIVE DigitsToInt(_)
DigitsToInt(s) ==
    IF s = <<>> THEN 0
    ELSE 10 * DigitsToInt(SubSeq(s, 1, Len(s) - 1)) + DigitVal(s[Len(s)])

\* the end of the greedy run \d+ that starts at position p of s
RECURSIVE DigitRunEnd(_, _)
DigitRunEnd(s, p) ==
    IF p + 1 <= Len(s) /\ s[p + 1] \in Digits THEN DigitRunEnd(s, p + 1) ELSE p

\* the positions at which the pattern _L(\d+) matches in name
MarkerStarts(name) ==
    {p \in 1..Len(name) :
        /\ p + 2 <= Len(name)
        /\ name[p] = "_"
        /\ name[p + 1] = "L"
        /\ name[p + 2] \in Digits}

SetMin(S) == CHOOSE x \in S : \A y \in S : x <= y
SetMax(S) == CHOOSE x \in S : \A y \in S : x >= y

\* re.search(r'_L(\d+)', name) on ASCII names: the leftmost match, its
\* digits as an int
extract_level_from_name(name) ==
    LET starts == MarkerStarts(name)
    IN  IF starts = {} THEN None
        ELSE LET p == SetMin(starts)
             IN  Some(DigitsToInt(SubSeq(name, p + 2, DigitRunEnd(name, p + 2))))

\* int(bone_id_str) of a token of sign and digit characters and letters: an
\* optional sign and decimal digits, else ValueError (None)
ParseInt(tok) ==
    LET signed == tok # <<>> /\ tok[1] \in {"-", "+"}
        body == IF signed THEN Tail(tok) ELSE tok
    IN  IF body = <<>> \/ \E k \in 1..Len(body) : body[k] \notin Digits
        THEN None
        ELSE Some(IF signed /\ tok[1] = "-" THEN 0 - DigitsToInt(body)
                  ELSE DigitsToInt(body))

\* the bone_ids list of lines 68-75: the tokens that parse to an int >= 0
RECURSIVE RetainedBoneIds(_)
RetainedBoneIds(tokens) ==
    IF tokens = <<>> THEN <<>>
    ELSE LET v == ParseInt(Head(tokens))
             rest == RetainedBoneIds(Tail(tokens))
         IN  IF v # None /\ v[1] >= 0 THEN <<v[1]>> \o rest ELSE rest

\* dict(Counter(bone_ids))
CounterOf(ids) ==
    [b \in {ids[k] : k \in 1..Len(ids)} |->
        Cardinality({k \in 1..Len(ids) : ids[k] = b})]


(***************************************************************************)
(* Dicts that keep their insertion order: sequences of <<key, value>>.     *)
(***************************************************************************)
EmptyDict == <<>>
DictKeys(d) == {d[k][1] : k \in 1..Len(d)}
DictValues(d) == {d[k][2] : k \in 1..Len(d)}
DictGet(d, key) == d[CHOOSE k \in 1..Len(d) : d[k][1] = key][2]

\* d[key] = value: a present key keeps its place, a new key goes last
DictSet(d, key, value) ==
    IF key \in DictKeys(d)
    THEN [k \in 1..Len(d) |-> IF d[k][1] = key THEN <<key, value>> ELSE d[k]]
    ELSE Append(d, <<key, value>>)

\* the order of Python tuples (bone_id, level)
TupleLess(a, b) == a[1] < b[1] \/ (a[1] = b[1] /\ a[2] < b[2])

RECURSIVE InsertSorted(_, _)
InsertSorted(sorted, x) ==
    IF sorted = <<>> THEN <<x>>
    ELSE IF TupleLess(x, Head(sorted)) THEN <<x>> \o sorted
    ELSE <<Head(sorted)>> \o InsertSorted(Tail(sorted), x)

RECURSIVE SortItems(_)
SortItems(d) ==
    IF d = <<>> THEN <<>>
    ELSE InsertSorted(SortItems(SubSeq(d, 1, Len(d) - 1)), d[Len(d)])

\* the mutant of SortedItems that iterates the dict in insertion order
UnsortedItems(d) == d

\* sorted(bone_assignments.items())
SortedItems(d) == SortItems(d)

RECURSIVE SortAscending(_)
SortAscending(S) ==
    IF S = {} THEN <<>>
    ELSE LET m == SetMin(S) IN <<m>> \o SortAscending(S \ {m})

\* sorted(level_data.keys(), reverse=True)
RECURSIVE SortedDescending(_)
SortedDescending(S) ==
    IF S = {} THEN <<>>
    ELSE LET m == SetMax(S) IN <<m>> \o SortedDescending(S \ {m})

(***************************************************************************)
(* The inputs: object names, BoneID texts (already split at whitespace),   *)
(* and the state of the file read_speedtree_file is given.                 *)
(***************************************************************************)
Names ==
    { <<>>,                                      \* no Name attribute: ''
      <<"T", "_", "L", "1">>,
      <<"B", "_", "L", "2">>,
      <<"W", "_", "L", "3">>,
      <<"G", "_", "L", "0">>,
      <<"X", "_", "L", "1", "_", "L", "2">>,     \* two markers
      <<"H", "_", "L", "0", "7">>,               \* several digits
      <<"F", "_", "L">>,                         \* a marker without digits
      <<"F", "L", "2">>,                         \* no underscore
      <<"l", "e", "a", "f">> }

Tok10 == <<"1", "0">>
Tok11 == <<"1", "1">>
Tok20 == <<"2", "0">>
TokNegative == <<"-", "1">>
TokNotInt == <<"x">>

BoneTexts ==
    { <<>>,                                      \* whitespace only
      <<Tok10, Tok11>>,
      <<Tok11, Tok20>>,
      <<Tok10, TokNotInt, Tok10>>,
      <<TokNegative, Tok20>> }

\* an <Object> element: its Name, whether it has a <Vertices> child, whether
\* that has a <BoneID> child with text, and the text's tokens
ObjectElements ==
    {[name |-> n, vertices |-> TRUE, bone_id |-> TRUE, tokens |-> t] :
        n \in Names, t \in BoneTexts}
    \cup {[name |-> n, vertices |-> v, bone_id |-> FALSE, tokens |-> <<>>] :
        n \in Names, v \in BOOLEAN}

Sources == {"ok", "missing", "unreadable", "malformed", "no_objects"}

VARIABLES
    pc,                \* where the run is
    source,            \* the state of the input file
    nparsed,           \* <Object> elements read so far
    level_data,        \* the LevelIndex: level -> sequence of ObjectData
    all_levels,        \* assign_bone_ids_to_levels: levels, highest first
    level_bone_ids,    \* assign_bone_ids_to_levels: level -> set of bone ids
    i,                 \* index into all_levels of the loop that is running
    todo,              \* bone ids of current_bone_ids not yet iterated
    bone_id_to_level,  \* assign_bone_ids_to_levels: the result being built
    writes,            \* history: bone id -> times line 153 assigned it
    bone_assignments,  \* the BoneLevelAssignment given to the emitter
    max_level,         \* generate_wind_hierarchy_json: max_level
    items,             \* generate_wind_hierarchy_json: the sorted items
    joints,            \* generate_wind_hierarchy_json: joints
    simulation_groups, \* generate_wind_hierarchy_json: simulation_groups
    level,             \* generate_wind_hierarchy_json: the range's level
    output             \* the output file: <<>> untouched, <<doc>> written

vars ==
    <<pc, source, nparsed, level_data, all_levels, level_bone_ids, i, todo,
      bone_id_to_level, writes, bone_assignments, max_level, items, joints,
      simulation_groups, level, output>>

classifier_vars == <<all_levels, level_bone_ids, i, todo, bone_id_to_level, writes>>
emitter_vars == <<max_level, items, joints, simulation_groups, level, output>>

EmptyIndex == [l \in {} |-> <<>>]

\* class ObjectData
ObjectData(name, bone_id_counts) ==
    [name |-> name, bone_id_counts |-> bone_id_counts]

\* lines 62-82: the bone_id_counts of one <Object>
bone_id_counts_of(obj) ==
    IF obj.vertices /\ obj.bone_id
    THEN CounterOf(RetainedBoneIds(obj.tokens))
    ELSE [b \in {} |-> 0]

\* level_data[level].append(obj_data) on a defaultdict(list)
AppendToLevel(index, lvl, obj_data) ==
    [l \in DOMAIN index \cup {lvl} |->
        IF l = lvl
        THEN (IF l \in DOMAIN index THEN index[l] ELSE <<>>) \o <<obj_data>>
        ELSE index[l]]

\* the state every run starts from, but for pc, source and level_data
Blank ==
    /\ nparsed = 0
    /\ all_levels = <<>>
    /\ level_bone_ids = EmptyIndex
    /\ i = 0
    /\ todo = {}
    /\ bone_id_to_level = EmptyDict
    /\ writes = [b \in {} |-> 0]
    /\ max_level = 0
    /\ items = <<>>
    /\ joints = <<>>
    /\ simulation_groups = <<>>
    /\ level = 0
    /\ output = <<>>

\* the script's run: read_speedtree_file is about to be called
Init ==
    /\ pc = "read"
    /\ source \in Sources
    /\ level_data = EmptyIndex
    /\ bone_assignments = EmptyDict
    /\ Blank

(***************************************************************************)
(* Extractor                                                               *)
(***************************************************************************)
\* read_speedtree_file up to the loop of parse_speedtree_xml
ReadFile ==
    /\ pc = "read"
    /\ \/ \* open() raises FileNotFoundError: caught, {} returned
          /\ source = "missing"
          /\ pc' = "assign"
       \/ \* open() or read() raises another error (PermissionError,
          \* IsADirectoryError, UnicodeDecodeError): no except clause takes it
          /\ source = "unreadable"
          /\ pc' = "fault"
       \/ \* ET.fromstring raises ParseError: caught, {} returned
          /\ source = "malformed"
          /\ pc' = "assign"
       \/ \* root.find('Objects') is None: {} returned
          /\ source = "no_objects"
          /\ pc' = "assign"
       \/ /\ source = "ok"
          /\ pc' = "parse"
    /\ UNCHANGED <<source, nparsed, level_data, bone_assignments>>
    /\ UNCHANGED classifier_vars
    /\ UNCHANGED emitter_vars

\* one turn of the loop over objects.findall('Object')
ParseObject ==
    /\ pc = "parse"
    /\ nparsed < MaxObjects
    /\ \E obj \in ObjectElements :
          LET lvl == extract_level_from_name(obj.name)
          IN  level_data' =
                  IF lvl = None THEN level_data
                  ELSE AppendToLevel(level_data, lvl[1],
                                     ObjectData(obj.name, bone_id_counts_of(obj)))
    /\ nparsed' = nparsed + 1
    /\ UNCHANGED <<pc, source, bone_assignments>>
    /\ UNCHANGED classifier_vars
    /\ UNCHANGED emitter_vars

\* return dict(level_data), and read_speedtree_file returns it
ParseReturn ==
    /\ pc = "parse"
    /\ pc' = "assign"
    /\ UNCHANGED <<source, nparsed, level_data, bone_assignments>>
    /\ UNCHANGED classifier_vars
    /\ UNCHANGED emitter_vars

(***************************************************************************)
(* Level classifier: assign_bone_ids_to_levels                             *)
(***************************************************************************)
\* lines 126-128: the bone ids of the objects of one level
BoneIdsOfLevel(index, lvl) ==
    UNION {DOMAIN index[lvl][k].bone_id_counts : k \in 1..Len(index[lvl])}

\* the mutant of AppearsInLower that never finds the bone id below
AppearsInLowerNever(bone_id, idx) == FALSE

\* lines 140-149: whether bone_id is in the set of a level after all_levels[idx]
AppearsInLower(bone_id, idx) ==
    \E k \in (idx + 1)..Len(all_levels) : bone_id \in level_bone_ids[all_levels[k]]

\* the mutant of LevelOrder that sorts without reverse=True
LevelOrderAscending(levels) == SortAscending(levels)

\* line 116: the order in which the levels are visited
LevelOrder(levels) == SortedDescending(levels)

\* lines 116-121
AssignStart ==
    /\ pc = "assign"
    /\ all_levels' = LevelOrder(DOMAIN level_data)
    /\ IF all_levels' = <<>>
       THEN /\ bone_assignments' = EmptyDict
            /\ pc' = "generate"
            /\ i' = i
       ELSE /\ bone_assignments' = bone_assignments
            /\ pc' = "collect"
            /\ i' = 1
    /\ UNCHANGED <<source, nparsed, level_data, level_bone_ids, todo,
                   bone_id_to_level, writes>>
    /\ UNCHANGED emitter_vars

\* lines 125-130: one turn of the loop that collects the bone ids of a level
CollectLevel ==
    /\ pc = "collect"
    /\ i <= Len(all_levels)
    /\ level_bone_ids' =
           [l \in DOMAIN level_bone_ids \cup {all_levels[i]} |->
               IF l = all_levels[i] THEN BoneIdsOfLevel(level_data, l)
               ELSE level_bone_ids[l]]
    /\ i' = i + 1
    /\ UNCHANGED <<pc, source, nparsed, level_data, all_levels, todo,
                   bone_id_to_level, writes, bone_assignments>>
    /\ UNCHANGED emitter_vars

\* lines 133-137: the result starts empty and the first level is entered
CollectDone ==
    /\ pc = "collect"
    /\ i > Len(all_levels)
    /\ bone_id_to_level' = EmptyDict
    /\ pc' = "classify"
    /\ i' = 1
    /\ todo' = level_bone_ids[all_levels[1]]
    /\ UNCHANGED <<source, nparsed, level_data, all_levels, level_bone_ids,
                   writes, bone_assignments>>
    /\ UNCHANGED emitter_vars

\* lines 142-156: one bone id of the current level (a set: in any order)
ClassifyBone ==
    /\ pc = "classify"
    /\ \E bone_id \in todo :
          /\ todo' = todo \ {bone_id}
          /\ IF ~AppearsInLower(bone_id, i)
             THEN /\ bone_id_to_level' =
                         DictSet(bone_id_to_level, bone_id, all_levels[i])
                  /\ writes' =
                         [b \in DOMAIN writes \cup {bone_id} |->
                             (IF b \in DOMAIN writes THEN writes[b] ELSE 0)
                             + (IF b = bone_id THEN 1 ELSE 0)]
             ELSE UNCHANGED <<bone_id_to_level, writes>>
    /\ UNCHANGED <<pc, source, nparsed, level_data, all_levels, level_bone_ids,
                   i, bone_assignments>>
    /\ UNCHANGED emitter_vars

\* line 136: the next level of all_levels is entered
NextLevel ==
    /\ pc = "classify"
    /\ todo = {}
    /\ i < Len(all_levels)
    /\ i' = i + 1
    /\ todo' = level_bone_ids[all_levels[i + 1]]
    /\ UNCHANGED <<pc, source, nparsed, level_data, all_levels, level_bone_ids,
                   bone_id_to_level, writes, bone_assignments>>
    /\ UNCHANGED emitter_vars

\* line 158, and line 302 of the script: the result becomes bone_assignments
AssignReturn ==
    /\ pc = "classify"
    /\ todo = {}
    /\ i = Len(all_levels)
    /\ bone_assignments' = bone_id_to_level
    /\ pc' = "generate"
    /\ UNCHANGED <<source, nparsed, level_data, all_levels, level_bone_ids,
                   i, todo, bone_id_to_level, writes>>
    /\ UNCHANGED emitter_vars

(***************************************************************************)
(* Hierarchy emitter: generate_wind_hierarchy_json                         *)
(***************************************************************************)
RECURSIVE FormatNat(_)
FormatNat(n) ==
    IF n < 10 THEN <<DigitChar(n)>>
    ELSE FormatNat(n \div 10) \o <<DigitChar(n % 10)>>

\* str() of an int, as an f-string formats it
FormatInt(n) == IF n < 0 THEN <<"-">> \o FormatNat(0 - n) ELSE FormatNat(n)

RootName == <<"R", "o", "o", "t">>
StartSuffix == <<"S", "t", "a", "r", "t">>
EndSuffix == <<"E", "n", "d">>

\* f"Bone_{bone_id}_Start" and f"Bone_{bone_id}_End"
BoneJointName(bone_id, suffix) ==
    <<"B", "o", "n", "e", "_">> \o FormatInt(bone_id) \o <<"_">> \o suffix

Joint(name, group) == [JointName |-> name, SimulationGroupIndex |-> group]

\* the mutant of simulation_group_index without the floor at 0
simulation_group_index_unclamped(lvl) == lvl - 1

\* line 191
simulation_group_index(lvl) == Max(0, lvl - 1)

\* round(x, 2) of x thousandths, in hundredths (ties to the even digit)
Round2(x) ==
    LET q == x \div 10
        r == x % 10
    IN  IF r < 5 THEN q
        ELSE IF r > 5 THEN q + 1
        ELSE IF q % 2 = 0 THEN q ELSE q + 1

\* line 221, in thousandths
min_influence(group_index) == 200 + (group_index - 1) * 200
\* line 222, in thousandths
max_influence(group_index) == Min(1000, min_influence(group_index) + 400)
\* line 223, in thousandths
shift_top(group_index) == Max(0, 300 - (group_index - 1) * 100)

\* lines 209-213, Influence in hundredths
TrunkGroup ==
    [bUseDualInfluence |-> FALSE, Influence |-> 100, bIsTrunkGroup |-> TRUE]

\* the mutant of DualGroup that raises MaxInfluence without the cap
DualGroupUncapped(group_index) ==
    [bUseDualInfluence |-> TRUE,
     MinInfluence |-> Round2(min_influence(group_index)),
     MaxInfluence |-> Round2(min_influence(group_index) + 400),
     ShiftTop |-> Round2(shift_top(group_index)),
     bIsTrunkGroup |-> FALSE]

\* lines 225-231, the three values in hundredths
DualGroup(group_index) ==
    [bUseDualInfluence |-> TRUE,
     MinInfluence |-> Round2(min_influence(group_index)),
     MaxInfluence |-> Round2(max_influence(group_index)),
     ShiftTop |-> Round2(shift_top(group_index)),
     bIsTrunkGroup |-> FALSE]

\* in hundredths
GustAttenuation == 25

\* lines 234-239
WindHierarchy ==
    [Joints |-> joints,
     SimulationGroups |-> simulation_groups,
     bIsGroundCover |-> FALSE,
     GustAttenuation |-> GustAttenuation]

\* the mutant of GenerateStart without the check of lines 169-171
GenerateStartUnguarded ==
    /\ pc = "generate"
    /\ max_level' = IF bone_assignments = EmptyDict THEN 0
                    ELSE SetMax(DictValues(bone_assignments))
    /\ joints' = <<Joint(RootName, 0)>>
    /\ items' = SortedItems(bone_assignments)
    /\ i' = 1
    /\ pc' = "joints"
    /\ UNCHANGED <<simulation_groups, level, output>>
    /\ UNCHANGED <<source, nparsed, level_data, all_levels, level_bone_ids,
                   todo, bone_id_to_level, writes, bone_assignments>>

\* lines 169-189: nothing for an empty assignment; else max_level, the Root
\* joint and the sorted items
GenerateStart ==
    /\ pc = "generate"
    /\ IF bone_assignments = EmptyDict
       THEN /\ pc' = "done"
            /\ UNCHANGED <<max_level, joints, items, i>>
       ELSE /\ max_level' = SetMax(DictValues(bone_assignments))
            /\ joints' = <<Joint(RootName, 0)>>
            /\ items' = SortedItems(bone_assignments)
            /\ i' = 1
            /\ pc' = "joints"
    /\ UNCHANGED <<simulation_groups, level, output>>
    /\ UNCHANGED <<source, nparsed, level_data, all_levels, level_bone_ids,
                   todo, bone_id_to_level, writes, bone_assignments>>

\* lines 189-203: the two joints of one item
AddJoints ==
    /\ pc = "joints"
    /\ i <= Len(items)
    /\ LET bone_id == items[i][1]
           group == simulation_group_index(items[i][2])
       IN  joints' = joints \o
               <<Joint(BoneJointName(bone_id, StartSuffix), group),
                 Joint(BoneJointName(bone_id, EndSuffix), group)>>
    /\ i' = i + 1
    /\ UNCHANGED <<pc, max_level, items, simulation_groups, level, output>>
    /\ UNCHANGED <<source, nparsed, level_data, all_levels, level_bone_ids,
                   todo, bone_id_to_level, writes, bone_assignments>>

\* lines 206-216: the trunk group, and the range starts at level 2
JointsDone ==
    /\ pc = "joints"
    /\ i > Len(items)
    /\ simulation_groups' = <<TrunkGroup>>
    /\ level' = 2
    /\ pc' = "groups"
    /\ UNCHANGED <<max_level, items, joints, output, i>>
    /\ UNCHANGED <<source, nparsed, level_data, all_levels, level_bone_ids,
                   todo, bone_id_to_level, writes, bone_assignments>>

\* the mutant of AddGroup that makes no group for a level without bones
AddGroupSkippingGaps ==
    /\ pc = "groups"
    /\ level <= max_level
    /\ simulation_groups' =
           IF level \in DictValues(bone_assignments)
           THEN Append(simulation_groups, DualGroup(level - 1))
           ELSE simulation_groups
    /\ level' = level + 1
    /\ UNCHANGED <<pc, max_level, items, joints, output, i>>
    /\ UNCHANGED <<source, nparsed, level_data, all_levels, level_bone_ids,
                   todo, bone_id_to_level, writes, bone_assignments>>

\* lines 216-231: the group of one level of range(2, max_level + 1)
AddGroup ==
    /\ pc = "groups"
    /\ level <= max_level
    /\ simulation_groups' = Append(simulation_groups, DualGroup(level - 1))
    /\ level' = level + 1
    /\ UNCHANGED <<pc, max_level, items, joints, output, i>>
    /\ UNCHANGED <<source, nparsed, level_data, all_levels, level_bone_ids,
                   todo, bone_id_to_level, writes, bone_assignments>>

\* the range is exhausted
GroupsDone ==
    /\ pc = "groups"
    /\ level > max_level
    /\ pc' = "write"
    /\ UNCHANGED <<max_level, items, joints, simulation_groups, level, output, i>>
    /\ UNCHANGED <<source, nparsed, level_data, all_levels, level_bone_ids,
                   todo, bone_id_to_level, writes, bone_assignments>>

\* lines 242-258: the document is written, or open() raises, the error is
\* printed and the file is as it was
WriteDocument ==
    /\ pc = "write"
    /\ \/ output' = <<WindHierarchy>>
       \/ output' = output
    /\ pc' = "done"
    /\ UNCHANGED <<max_level, items, joints, simulation_groups, level, i>>
    /\ UNCHANGED <<source, nparsed, level_data, all_levels, level_bone_ids,
                   todo, bone_id_to_level, writes, bone_assignments>>

(***************************************************************************)
(* Specifications                                                          *)
(***************************************************************************)
ExtractorNext == ReadFile \/ ParseObject \/ ParseReturn

ClassifierNext ==
    \/ AssignStart
    \/ CollectLevel
    \/ CollectDone
    \/ ClassifyBone
    \/ NextLevel
    \/ AssignReturn

EmitterNext ==
    \/ GenerateStart
    \/ AddJoints
    \/ JointsDone
    \/ AddGroup
    \/ GroupsDone
    \/ WriteDocument

Next == ExtractorNext \/ ClassifierNext \/ EmitterNext

\* the script of lines 291-314
Spec == Init /\ [][Next]_vars

(***************************************************************************)
(* The classifier called on any LevelIndex of the bounds                   *)
(***************************************************************************)
\* the levels, bone ids and counts of those LevelIndex values
IndexLevels == {1, 2, 3}
IndexBones == {10, 11}
IndexCounts == {1, 2}

\* every bone_id_counts over IndexBones with counts of IndexCounts
IndexCounters == UNION {[S -> IndexCounts] : S \in SUBSET IndexBones}

IndexObjectName(lvl) == <<"N", "_", "L">> \o FormatInt(lvl)

\* the LevelIndex the extractor builds of a sequence of <<level, counts>>
RECURSIVE BuildIndex(_)
BuildIndex(objs) ==
    IF objs = <<>> THEN EmptyIndex
    ELSE LET last == objs[Len(objs)]
         IN  AppendToLevel(BuildIndex(SubSeq(objs, 1, Len(objs) - 1)), last[1],
                           ObjectData(IndexObjectName(last[1]), last[2]))

\* spec.md section 8: Trunk_L1 {10, 11}, Branch_L2 {11, 20}, Twig_L3 {20, 30}
ExampleIndex ==
    BuildIndex(<< <<1, [b \in {10, 11} |-> 1]>>,
                  <<2, [b \in {11, 20} |-> 1]>>,
                  <<3, [b \in {20, 30} |-> 1]>> >>)

IndexInputs ==
    {BuildIndex(objs) :
        objs \in UNION {[1..n -> IndexLevels \X IndexCounters] :
                           n \in 0..MaxIndexObjects}}
    \cup {ExampleIndex}

InitClassify ==
    /\ pc = "assign"
    /\ source = "ok"
    /\ level_data \in IndexInputs
    /\ bone_assignments = EmptyDict
    /\ Blank

\* assign_bone_ids_to_levels called on a LevelIndex
SpecClassify == InitClassify /\ [][ClassifierNext]_vars

(***************************************************************************)
(* The emitter called on any BoneLevelAssignment of the bounds             *)
(***************************************************************************)
\* the bone ids and levels of those assignments
EmitBones == {10, 11, 20, 30}
EmitLevels == (0 - 1)..MaxLevel

\* spec.md section 8: {10:1, 11:1, 20:2, 30:3}
ExampleAssignment == << <<10, 1>>, <<11, 1>>, <<20, 2>>, <<30, 3>> >>

AssignmentInputs ==
    {d \in UNION {[1..n -> EmitBones \X EmitLevels] : n \in 0..MaxBones} :
        \A j, k \in 1..Len(d) : j # k => d[j][1] # d[k][1]}
    \cup {ExampleAssignment}

InitEmit ==
    /\ pc = "generate"
    /\ source = "ok"
    /\ level_data = EmptyIndex
    /\ bone_assignments \in AssignmentInputs
    /\ Blank

\* generate_wind_hierarchy_json called on a BoneLevelAssignment
SpecEmit == InitEmit /\ [][EmitterNext]_vars

(***************************************************************************)
(* Properties                                                              *)
(***************************************************************************)
\* bone id b is a key of the bone mapping of an object at level l
Occurs(b, l) ==
    \E k \in 1..Len(level_data[l]) : b \in DOMAIN level_data[l][k].bone_id_counts

LevelsOf(b) == {l \in DOMAIN level_data : Occurs(b, l)}

ObservedBones ==
    UNION {UNION {DOMAIN level_data[l][k].bone_id_counts :
                     k \in 1..Len(level_data[l])} : l \in DOMAIN level_data}

\* C1: when assign_bone_ids_to_levels has returned, the keys of its result
\* are exactly the bone ids that occur in some object at some level, each
\* key is there once, and each is mapped to the least level it occurs in.
C1_MinimumLevel ==
    pc = "generate" =>
        /\ DictKeys(bone_assignments) = ObservedBones
        /\ Len(bone_assignments) = Cardinality(ObservedBones)
        /\ \A b \in ObservedBones :
              /\ DictGet(bone_assignments, b) \in LevelsOf(b)
              /\ \A l \in LevelsOf(b) : DictGet(bone_assignments, b) <= l

\* the run of the worked example has returned: 11 is at levels 1 and 2 and
\* 20 at levels 2 and 3
C1_Witness ==
    /\ pc = "generate"
    /\ level_data = ExampleIndex
    /\ DictGet(bone_assignments, 11) = 1
    /\ DictGet(bone_assignments, 20) = 2
    /\ DictGet(bone_assignments, 30) = 3

\* a dual-influence group's values are in range
InfluenceInRange(g) ==
    /\ g.MaxInfluence >= g.MinInfluence
    /\ 0 <= g.MinInfluence /\ g.MinInfluence <= 100
    /\ 0 <= g.MaxInfluence /\ g.MaxInfluence <= 100
    /\ 0 <= g.ShiftTop /\ g.ShiftTop <= 30

\* C2: every dual-influence group of an emitted document has
\* max_influence >= min_influence, both in [0.0, 1.0], and shift_top in
\* [0.0, 0.3] (hundredths: 0..100 and 0..30).
C2_InfluenceRanges ==
    \A d \in 1..Len(output) :
        \A k \in 1..Len(output[d].SimulationGroups) :
            LET g == output[d].SimulationGroups[k]
            IN  g.bUseDualInfluence => InfluenceInRange(g)

\* the k-th smallest element of a set of integers
KthSmallest(S, k) == CHOOSE b \in S : Cardinality({c \in S : c < b}) = k - 1

\* the joint list of C3 for assignment d, position by position
ExpectedJoints(d) ==
    [p \in 1..(1 + 2 * Cardinality(DictKeys(d))) |->
        IF p = 1 THEN [JointName |-> <<"R", "o", "o", "t">>,
                       SimulationGroupIndex |-> 0]
        ELSE LET b == KthSmallest(DictKeys(d), p \div 2)
                 lvl == DictGet(d, b)
             IN  [JointName |->
                      <<"B", "o", "n", "e", "_">> \o FormatInt(b) \o
                      (IF p % 2 = 0 THEN <<"_", "S", "t", "a", "r", "t">>
                       ELSE <<"_", "E", "n", "d">>),
                  SimulationGroupIndex |-> IF lvl - 1 > 0 THEN lvl - 1 ELSE 0]]

\* C3: the Joints of an emitted document are Root with group 0, then for
\* each bone id in ascending order Bone_<id>_Start and Bone_<id>_End, both
\* with group max(0, level - 1); so there are 1 + 2 * n joints.
C3_JointList ==
    \A d \in 1..Len(output) :
        /\ output[d].Joints = ExpectedJoints(bone_assignments)
        /\ Len(output[d].Joints) = 1 + 2 * Len(bone_assignments)

\* a document was written for an assignment whose keys were not inserted in
\* ascending order and whose levels differ
C3_Witness ==
    /\ output # <<>>
    /\ Len(bone_assignments) >= 2
    /\ bone_assignments[1][1] > bone_assignments[2][1]
    /\ bone_assignments[1][2] # bone_assignments[2][2]

MaxAssignedLevel == SetMax(DictValues(bone_assignments))

\* C4: the SimulationGroups of an emitted document has
\* max(0, max_level - 1) + 1 entries, the entry of group index g at place
\* g (0 the trunk, g >= 1 the dual group of min_influence 0.2 * g), also
\* for the levels no bone is assigned to.
C4_GroupCount ==
    \A d \in 1..Len(output) :
        LET groups == output[d].SimulationGroups
            top == IF MaxAssignedLevel - 1 > 0 THEN MaxAssignedLevel - 1 ELSE 0
        IN  /\ Len(groups) = top + 1
            /\ groups[1].bIsTrunkGroup
            /\ \A g \in 1..top :
                  /\ ~groups[g + 1].bIsTrunkGroup
                  /\ groups[g + 1].MinInfluence = 20 * g

\* a document was written for an assignment with a gap level: a level
\* between 2 and the maximum that no bone is assigned to
C4_Witness ==
    /\ output # <<>>
    /\ \E l \in 2..MaxAssignedLevel : l \notin DictValues(bone_assignments)
    /\ Len(output[1].SimulationGroups) = MaxAssignedLevel

\* C5: in an emitted document group 0 is exactly the trunk group (influence
\* 1.0, no min, max or shift field) and group g >= 1 is exactly the dual
\* group of min 0.2 + (g-1)*0.2, max min(1.0, min + 0.4) and shift
\* max(0.0, 0.3 - (g-1)*0.1), without an Influence field; the example
\* assignment gives (trunk, 1.0), (0.2, 0.6, 0.3), (0.4, 0.8, 0.2).
C5_GroupContents ==
    \A d \in 1..Len(output) :
        LET groups == output[d].SimulationGroups
        IN  /\ groups[1] = [bIsTrunkGroup |-> TRUE, bUseDualInfluence |-> FALSE,
                            Influence |-> 100]
            /\ DOMAIN groups[1] =
                   {"bIsTrunkGroup", "bUseDualInfluence", "Influence"}
            /\ \A g \in 1..(Len(groups) - 1) :
                  LET lo == 20 + (g - 1) * 20
                      hi == IF lo + 40 < 100 THEN lo + 40 ELSE 100
                      sh == IF 30 - (g - 1) * 10 > 0 THEN 30 - (g - 1) * 10 ELSE 0
                  IN  /\ groups[g + 1] =
                             [bIsTrunkGroup |-> FALSE, bUseDualInfluence |-> TRUE,
                              MinInfluence |-> lo, MaxInfluence |-> hi,
                              ShiftTop |-> sh]
                      /\ DOMAIN groups[g + 1] =
                             {"bIsTrunkGroup", "bUseDualInfluence",
                              "MinInfluence", "MaxInfluence", "ShiftTop"}
            /\ bone_assignments = ExampleAssignment =>
                  groups =
                      << [bIsTrunkGroup |-> TRUE, bUseDualInfluence |-> FALSE,
                          Influence |-> 100],
                         [bIsTrunkGroup |-> FALSE, bUseDualInfluence |-> TRUE,
                          MinInfluence |-> 20, MaxInfluence |-> 60,
                          ShiftTop |-> 30],
                         [bIsTrunkGroup |-> FALSE, bUseDualInfluence |-> TRUE,
                          MinInfluence |-> 40, MaxInfluence |-> 80,
                          ShiftTop |-> 20] >>

\* the document of the example assignment was written
C5_Witness ==
    /\ output # <<>>
    /\ bone_assignments = ExampleAssignment
    /\ Len(output[1].SimulationGroups) = 3

\* C6: a LevelIndex with no levels gives the empty assignment, and on an
\* empty assignment generate_wind_hierarchy_json builds nothing, writes
\* nothing and is done.
C6_NothingToGenerate ==
    /\ (pc \in {"generate", "joints", "groups", "write", "done"}
        /\ level_data = EmptyIndex)
           => bone_assignments = EmptyDict
    /\ (pc \in {"joints", "groups", "write", "done"}
        /\ bone_assignments = EmptyDict)
           => /\ pc = "done"
              /\ joints = <<>>
              /\ simulation_groups = <<>>
              /\ output = <<>>

\* a document whose objects all lack a level marker was read, and the run
\* is done
C6_Witness ==
    /\ pc = "done"
    /\ source = "ok"
    /\ nparsed > 0
    /\ level_data = EmptyIndex
    /\ bone_assignments = EmptyDict
    /\ output = <<>>

\* C7: read_speedtree_file never propagates a fault: for a file that is
\* missing, unreadable or malformed it returns the empty LevelIndex.
C7_NoFault ==
    /\ pc # "fault"
    /\ (pc # "read" /\ source \in {"missing", "unreadable", "malformed"})
           => level_data = EmptyIndex

\* C8: every key of the LevelIndex is a positive integer.
C8_PositiveLevels == \A l \in DOMAIN level_data : l >= 1

\* C9: in an emitted document of an assignment with levels >= 0 every
\* joint's SimulationGroupIndex is an index of SimulationGroups:
\* 0 <= SimulationGroupIndex < len(SimulationGroups).
C9_GroupIndexValid ==
    \A d \in 1..Len(output) :
        (\A l \in DictValues(bone_assignments) : l >= 0) =>
            \A k \in 1..Len(output[d].Joints) :
                /\ 0 <= output[d].Joints[k].SimulationGroupIndex
                /\ output[d].Joints[k].SimulationGroupIndex
                       < Len(output[d].SimulationGroups)

\* a document was written for an assignment with level 0 and a gap level
C9_Witness ==
    /\ output # <<>>
    /\ 0 \in DictValues(bone_assignments)
    /\ MaxAssignedLevel >= 3
    /\ 2 \notin DictValues(bone_assignments)

\* no bone id was assigned more than once
AtMostOneWrite == \A b \in DOMAIN writes : writes[b] <= 1

\* at the return every observed bone id was assigned exactly once
OneWriteAtReturn ==
    pc = "generate" =>
        \A b \in ObservedBones : b \in DOMAIN writes /\ writes[b] = 1

\* the first level visited is the highest, and each next one is lower
VisitsDescend ==
    /\ (pc = "collect" /\ pc' = "classify")
           => all_levels'[i'] = SetMax(DOMAIN level_data)
    /\ (pc = "classify" /\ pc' = "classify" /\ i' # i)
           => all_levels'[i'] < all_levels[i]

\* an assigned bone id keeps its place and its level
AssignmentsKept ==
    pc = "classify" =>
        \A k \in 1..Len(bone_id_to_level) :
            /\ k <= Len(bone_id_to_level')
            /\ bone_id_to_level'[k] = bone_id_to_level[k]

\* C10: assign_bone_ids_to_levels visits the levels from the highest to the
\* lowest, assigns no bone id twice, never overwrites or removes an
\* assignment, and at its return has assigned every observed bone id once.
C10_AssignedOnce ==
    /\ [](AtMostOneWrite /\ OneWriteAtReturn)
    /\ [][VisitsDescend /\ AssignmentsKept]_vars

\* the run has returned with a bone id that occurs at two levels or more
C10_Witness ==
    /\ pc = "generate"
    /\ Len(all_levels) >= 2
    /\ \E b \in ObservedBones :
          /\ Cardinality(LevelsOf(b)) >= 2
          /\ writes[b] = 1

====
